---- MODULE Spec2Model ----
(***************************************************************************)
(* sftpsender: the autosend worker/file sequence resolver of               *)
(* src/sftpsender.go (parseWorkerNumbers, findFileSequence,                *)
(* resolveWorkerName, findCredential, Upload and main).                    *)
(*                                                                         *)
(* Go strings are modelled as sequences of one-character strings, so that  *)
(* splitting, trimming, number parsing and number formatting are computed  *)
(* character by character as the library routines compute them.            *)
(***************************************************************************)
EXTENDS Integers, Sequences, FiniteSets, TLC

(***************************************************************************)
(* Strings                                                                 *)
(***************************************************************************)

Digits == <<"0", "1", "2", "3", "4", "5", "6", "7", "8", "9">>

\* unicode.IsSpace restricted to the white space the inputs use.
Whitespace == {" ", "\t"}

IsDigit(c) == \E k \in 1..10 : Digits[k] = c

DigitVal(c) == (CHOOSE k \in 1..10 : Digits[k] = c) - 1

\* strings.Contains(s, c) for a one-character c.
Contains(s, c) == \E k \in 1..Len(s) : s[k] = c

\* strings.Index(s, c) + 1 for a one-character c, 0 when absent.
IndexOf(s, c) ==
    IF Contains(s, c) THEN CHOOSE k \in 1..Len(s) : s[k] = c /\ \A j \in 1..(k - 1) : s[j] # c
    ELSE 0

RECURSIVE Split(_, _)
\* strings.Split(s, c): every field between separators, empty fields kept.
Split(s, c) ==
    IF ~Contains(s, c) THEN <<s>>
    ELSE LET k == IndexOf(s, c)
         IN <<SubSeq(s, 1, k - 1)>> \o Split(SubSeq(s, k + 1, Len(s)), c)

\* strings.SplitN(s, c, 2): at most two fields, cut at the first separator.
SplitN2(s, c) ==
    IF ~Contains(s, c) THEN <<s>>
    ELSE LET k == IndexOf(s, c)
         IN <<SubSeq(s, 1, k - 1), SubSeq(s, k + 1, Len(s))>>

RECURSIVE TrimLeft(_)
TrimLeft(s) == IF s # <<>> /\ Head(s) \in Whitespace THEN TrimLeft(Tail(s)) ELSE s

RECURSIVE TrimRight(_)
TrimRight(s) ==
    IF s # <<>> /\ s[Len(s)] \in Whitespace THEN TrimRight(SubSeq(s, 1, Len(s) - 1)) ELSE s

\* strings.TrimSpace
TrimSpace(s) == TrimRight(TrimLeft(s))

RECURSIVE ReplaceAll(_, _, _)
\* strings.ReplaceAll(s, c, new) for a one-character c.
ReplaceAll(s, c, new) ==
    IF s = <<>> THEN <<>>
    ELSE (IF Head(s) = c THEN new ELSE <<Head(s)>>) \o ReplaceAll(Tail(s), c, new)

RECURSIVE Itoa(_)
\* fmt's %d: decimal, no padding, a leading '-' for negatives.
Itoa(n) ==
    IF n < 0 THEN <<"-">> \o Itoa(0 - n)
    ELSE IF n < 10 THEN <<Digits[n + 1]>>
    ELSE Itoa(n \div 10) \o <<Digits[(n % 10) + 1]>>

RECURSIVE DecVal(_)
DecVal(ds) ==
    IF ds = <<>> THEN 0 ELSE DecVal(SubSeq(ds, 1, Len(ds) - 1)) * 10 + DigitVal(ds[Len(ds)])

RECURSIVE StripZeros(_)
StripZeros(ds) == IF Len(ds) > 1 /\ Head(ds) = "0" THEN StripZeros(Tail(ds)) ELSE ds

\* The decimal digits of the largest int (64-bit build): 9223372036854775807.
MaxIntDigits ==
    <<"9", "2", "2", "3", "3", "7", "2", "0", "3", "6", "8", "5", "4", "7", "7", "5", "8", "0", "7">>

RECURSIVE DigitsGreater(_, _)
\* a > b for two digit strings of the same length.
DigitsGreater(a, b) ==
    IF a = <<>> THEN FALSE
    ELSE IF Head(a) # Head(b) THEN DigitVal(Head(a)) > DigitVal(Head(b))
    ELSE DigitsGreater(Tail(a), Tail(b))

\* The magnitude does not fit the int: strconv reports ErrRange.
\* (For a negative number the limit is one larger; the inputs do not reach it.)
OutOfRange(ds) ==
    LET m == StripZeros(ds)
    IN \/ Len(m) > Len(MaxIntDigits)
       \/ Len(m) = Len(MaxIntDigits) /\ DigitsGreater(m, MaxIntDigits)

\* strconv.Atoi: an optional sign, then one or more decimal digits, the value
\* within the int range.  ok is FALSE where Atoi returns an error.
Atoi(s) ==
    LET signed == s # <<>> /\ Head(s) \in {"+", "-"}
        body   == IF signed THEN Tail(s) ELSE s
    IN IF body = <<>> \/ (\E k \in 1..Len(body) : ~IsDigit(body[k])) \/ OutOfRange(body)
       THEN [ok |-> FALSE, val |-> 0]
       ELSE [ok |-> TRUE,
             val |-> IF signed /\ Head(s) = "-" THEN 0 - DecVal(body) ELSE DecVal(body)]

(***************************************************************************)
(* Errors: nil, or a kind with the text the message is formatted with.     *)
(***************************************************************************)

Nil == [kind |-> "nil", detail |-> <<>>]

Errorf(kind, detail) == [kind |-> kind, detail |-> detail]

(***************************************************************************)
(* parseWorkerNumbers                                                      *)
(***************************************************************************)

RECURSIVE parseIgnoreSkipBad(_, _)
\* parseIgnore that skips a part Atoi rejects instead of returning its error.
parseIgnoreSkipBad(parts, ignoreSet) ==
    IF parts = <<>> THEN [err |-> Nil, set |-> ignoreSet]
    ELSE LET part == TrimSpace(Head(parts))
         IN IF part = <<>> THEN parseIgnoreSkipBad(Tail(parts), ignoreSet)
            ELSE LET num == Atoi(part)
                 IN IF ~num.ok
                    THEN parseIgnoreSkipBad(Tail(parts), ignoreSet)
                    ELSE parseIgnoreSkipBad(Tail(parts), ignoreSet \cup {num.val})

RECURSIVE parseIgnore(_, _)
\* The loop over the ignore parts: the set built so far, or the first error.
parseIgnore(parts, ignoreSet) ==
    IF parts = <<>> THEN [err |-> Nil, set |-> ignoreSet]
    ELSE LET part == TrimSpace(Head(parts))
         IN IF part = <<>> THEN parseIgnore(Tail(parts), ignoreSet)
            ELSE LET num == Atoi(part)
                 IN IF ~num.ok
                    THEN [err |-> Errorf("invalid ignore number", part), set |-> {}]
                    ELSE parseIgnore(Tail(parts), ignoreSet \cup {num.val})

\* parseRange with the range's end left out (i < end).
parseRangeHalfOpen(part, ignoreSet) ==
    LET rangeParts == Split(part, "-")
    IN IF Len(rangeParts) # 2
       THEN [err |-> Errorf("invalid range format", part), set |-> {}]
       ELSE LET start == Atoi(TrimSpace(rangeParts[1]))
                end   == Atoi(TrimSpace(rangeParts[2]))
            IN IF ~start.ok
               THEN [err |-> Errorf("invalid range start", rangeParts[1]), set |-> {}]
               ELSE IF ~end.ok
               THEN [err |-> Errorf("invalid range end", rangeParts[2]), set |-> {}]
               ELSE IF start.val > end.val
               THEN [err |-> Errorf("range start must be <= end",
                                    Itoa(start.val) \o <<",">> \o Itoa(end.val)),
                     set |-> {}]
               ELSE [err |-> Nil,
                     set |-> {i \in start.val .. (end.val - 1) : i \notin ignoreSet}]

\* One autosend part that contains '-': the numbers it adds, or its error.
parseRange(part, ignoreSet) ==
    LET rangeParts == Split(part, "-")
    IN IF Len(rangeParts) # 2
       THEN [err |-> Errorf("invalid range format", part), set |-> {}]
       ELSE LET start == Atoi(TrimSpace(rangeParts[1]))
                end   == Atoi(TrimSpace(rangeParts[2]))
            IN IF ~start.ok
               THEN [err |-> Errorf("invalid range start", rangeParts[1]), set |-> {}]
               ELSE IF ~end.ok
               THEN [err |-> Errorf("invalid range end", rangeParts[2]), set |-> {}]
               ELSE IF start.val > end.val
               THEN [err |-> Errorf("range start must be <= end",
                                    Itoa(start.val) \o <<",">> \o Itoa(end.val)),
                     set |-> {}]
               ELSE [err |-> Nil,
                     set |-> {i \in start.val .. end.val : i \notin ignoreSet}]

\* parseSingle without the look-up in the ignore set.
parseSingleKeepIgnored(part, ignoreSet) ==
    LET num == Atoi(part)
    IN IF ~num.ok
       THEN [err |-> Errorf("invalid worker number", part), set |-> {}]
       ELSE [err |-> Nil, set |-> {num.val}]

\* One autosend part without '-': a single number.
parseSingle(part, ignoreSet) ==
    LET num == Atoi(part)
    IN IF ~num.ok
       THEN [err |-> Errorf("invalid worker number", part), set |-> {}]
       ELSE [err |-> Nil, set |-> IF num.val \notin ignoreSet THEN {num.val} ELSE {}]

RECURSIVE parseAutosendSkipBad(_, _, _)
\* parseAutosend that skips a part with an error instead of returning the error.
parseAutosendSkipBad(parts, ignoreSet, workerSet) ==
    IF parts = <<>> THEN [err |-> Nil, set |-> workerSet]
    ELSE LET part == TrimSpace(Head(parts))
         IN IF part = <<>> THEN parseAutosendSkipBad(Tail(parts), ignoreSet, workerSet)
            ELSE LET one == IF Contains(part, "-") THEN parseRange(part, ignoreSet)
                            ELSE parseSingle(part, ignoreSet)
                 IN parseAutosendSkipBad(Tail(parts), ignoreSet, workerSet \cup one.set)

RECURSIVE parseAutosendNumberFirst(_, _, _)
\* parseAutosend that tries a part as a single number before it looks for '-'.
parseAutosendNumberFirst(parts, ignoreSet, workerSet) ==
    IF parts = <<>> THEN [err |-> Nil, set |-> workerSet]
    ELSE LET part == TrimSpace(Head(parts))
         IN IF part = <<>> THEN parseAutosendNumberFirst(Tail(parts), ignoreSet, workerSet)
            ELSE LET one == IF Atoi(part).ok \/ ~Contains(part, "-")
                            THEN parseSingle(part, ignoreSet)
                            ELSE parseRange(part, ignoreSet)
                 IN IF one.err # Nil THEN [err |-> one.err, set |-> {}]
                    ELSE parseAutosendNumberFirst(Tail(parts), ignoreSet,
                                                  workerSet \cup one.set)

RECURSIVE parseAutosend(_, _, _)
\* The loop over the autosend parts: the worker set, or the first error.
parseAutosend(parts, ignoreSet, workerSet) ==
    IF parts = <<>> THEN [err |-> Nil, set |-> workerSet]
    ELSE LET part == TrimSpace(Head(parts))
         IN IF part = <<>> THEN parseAutosend(Tail(parts), ignoreSet, workerSet)
            ELSE LET one == IF Contains(part, "-") THEN parseRange(part, ignoreSet)
                            ELSE parseSingle(part, ignoreSet)
                 IN IF one.err # Nil THEN [err |-> one.err, set |-> {}]
                    ELSE parseAutosend(Tail(parts), ignoreSet, workerSet \cup one.set)

RECURSIVE sortInts(_)
\* The keys of the worker map appended to a slice, then sort.Ints.
sortInts(S) ==
    IF S = {} THEN <<>>
    ELSE LET m == CHOOSE x \in S : \A y \in S : x <= y
         IN <<m>> \o sortInts(S \ {m})

\* parseWorkerNumbers with the ignore list parsed before the empty-autosend check.
parseWorkerNumbersIgnoreFirst(as, ig) ==
    LET ign == IF ig # <<>> THEN parseIgnore(Split(ig, ","), {})
               ELSE [err |-> Nil, set |-> {}]
    IN IF ign.err # Nil THEN [workers |-> <<>>, err |-> ign.err]
       ELSE IF as = <<>>
       THEN [workers |-> <<>>, err |-> Errorf("autosend cannot be empty", <<>>)]
       ELSE LET ws == parseAutosend(Split(as, ","), ign.set, {})
            IN IF ws.err # Nil THEN [workers |-> <<>>, err |-> ws.err]
               ELSE IF ws.set = {}
               THEN [workers |-> <<>>,
                     err |-> Errorf("no workers to send to after applying ignore list", <<>>)]
               ELSE [workers |-> sortInts(ws.set), err |-> Nil]

\* parseWorkerNumbers without the final len(workers) == 0 check.
parseWorkerNumbersNoEmptyCheck(as, ig) ==
    IF as = <<>> THEN [workers |-> <<>>, err |-> Errorf("autosend cannot be empty", <<>>)]
    ELSE LET ign == IF ig # <<>> THEN parseIgnore(Split(ig, ","), {})
                    ELSE [err |-> Nil, set |-> {}]
         IN IF ign.err # Nil THEN [workers |-> <<>>, err |-> ign.err]
            ELSE LET ws == parseAutosend(Split(as, ","), ign.set, {})
                 IN IF ws.err # Nil THEN [workers |-> <<>>, err |-> ws.err]
                    ELSE [workers |-> sortInts(ws.set), err |-> Nil]

\* The result pair (workers, err) of parseWorkerNumbers.
parseWorkerNumbers(as, ig) ==
    IF as = <<>> THEN [workers |-> <<>>, err |-> Errorf("autosend cannot be empty", <<>>)]
    ELSE LET ign == IF ig # <<>> THEN parseIgnore(Split(ig, ","), {})
                    ELSE [err |-> Nil, set |-> {}]
         IN IF ign.err # Nil THEN [workers |-> <<>>, err |-> ign.err]
            ELSE LET ws == parseAutosend(Split(as, ","), ign.set, {})
                 IN IF ws.err # Nil THEN [workers |-> <<>>, err |-> ws.err]
                    ELSE IF ws.set = {}
                    THEN [workers |-> <<>>,
                          err |-> Errorf("no workers to send to after applying ignore list", <<>>)]
                    ELSE [workers |-> sortInts(ws.set), err |-> Nil]

(***************************************************************************)
(* Paths.  The inputs are clean paths (no "..", no "." element, no doubled *)
(* or trailing separator), on which filepath.Clean is the identity.        *)
(***************************************************************************)

LastIndexOf(s, c) ==
    IF Contains(s, c) THEN CHOOSE k \in 1..Len(s) : s[k] = c /\ \A j \in (k + 1)..Len(s) : s[j] # c
    ELSE 0

\* filepath.Dir
Dir(p) ==
    LET k == LastIndexOf(p, "/")
    IN IF k = 0 THEN <<".">> ELSE IF k = 1 THEN <<"/">> ELSE SubSeq(p, 1, k - 1)

\* filepath.Base
Base(p) ==
    IF p = <<>> THEN <<".">> ELSE SubSeq(p, LastIndexOf(p, "/") + 1, Len(p))

\* filepath.Join(dir, name)
Join(dir, name) ==
    IF dir = <<".">> \/ dir = <<>> THEN name
    ELSE IF dir = <<"/">> THEN <<"/">> \o name
    ELSE dir \o <<"/">> \o name

\* filepath.Abs under working directory wd; wd = <<>> when os.Getwd fails.
Abs(p, wd) ==
    IF p # <<>> /\ Head(p) = "/" THEN [ok |-> TRUE, path |-> p]
    ELSE IF wd = <<>> THEN [ok |-> FALSE, path |-> <<>>]
    ELSE [ok |-> TRUE, path |-> IF p = <<>> THEN wd ELSE Join(wd, p)]

\* os.Stat(p) succeeds: p, resolved against the working directory, exists.
Stat(p, wd, disk) == Abs(p, wd).ok /\ Abs(p, wd).path \in disk

(***************************************************************************)
(* findFileSequence                                                        *)
(***************************************************************************)

RECURSIVE digitRunEnd(_, _)
\* The inner loop: the first position at or after end that holds no digit.
digitRunEnd(baseName, end) ==
    IF end <= Len(baseName) /\ IsDigit(baseName[end]) THEN digitRunEnd(baseName, end + 1)
    ELSE end

RECURSIVE scanNumber(_, _)
\* The outer loop from position i (1-based): the first digit run Atoi accepts.
scanNumber(baseName, i) ==
    IF i > Len(baseName) THEN [found |-> FALSE, baseNum |-> 0, prefix |-> <<>>, suffix |-> <<>>]
    ELSE IF IsDigit(baseName[i])
    THEN LET end == digitRunEnd(baseName, i)
             num == Atoi(SubSeq(baseName, i, end - 1))
         IN IF num.ok
            THEN [found |-> TRUE, baseNum |-> num.val,
                  prefix |-> SubSeq(baseName, 1, i - 1),
                  suffix |-> SubSeq(baseName, end, Len(baseName))]
            ELSE scanNumber(baseName, i + 1)
    ELSE scanNumber(baseName, i + 1)

RECURSIVE generateSequenceNoStat(_, _, _, _, _, _, _, _)
\* generateSequence without the existence check on the members.
generateSequenceNoStat(dir, prefix, baseNum, suffix, count, i, files, disk) ==
    IF i >= count THEN [files |-> files, err |-> Nil, stats |-> files]
    ELSE generateSequenceNoStat(dir, prefix, baseNum, suffix, count, i + 1,
             Append(files, Join(dir, prefix \o Itoa(baseNum + i) \o suffix)), disk)

RECURSIVE generateSequenceCheckAll(_, _, _, _, _, _, _, _)
\* generateSequence that checks every member before it reports the last
\* missing one.
generateSequenceCheckAll(dir, prefix, baseNum, suffix, count, i, files, disk) ==
    IF i >= count
    THEN LET all  == [k \in 1..count |->
                         Join(dir, prefix \o Itoa(baseNum + k - 1) \o suffix)]
             gone == {k \in 1..count : all[k] \notin disk}
         IN IF gone = {} THEN [files |-> all, err |-> Nil, stats |-> all]
            ELSE [files |-> <<>>,
                  err |-> Errorf("file does not exist in sequence",
                                 all[CHOOSE k \in gone : \A j \in gone : j <= k]),
                  stats |-> all]
    ELSE generateSequenceCheckAll(dir, prefix, baseNum, suffix, count, i + 1, files, disk)

RECURSIVE generateSequence(_, _, _, _, _, _, _, _)
\* The generating loop from index i (0-based) with the files collected so far.
\* stats lists the paths os.Stat was called on, in call order.
generateSequence(dir, prefix, baseNum, suffix, count, i, files, disk) ==
    IF i >= count THEN [files |-> files, err |-> Nil, stats |-> files]
    ELSE LET filePath == Join(dir, prefix \o Itoa(baseNum + i) \o suffix)
         IN IF filePath \notin disk
            THEN [files |-> <<>>, err |-> Errorf("file does not exist in sequence", filePath),
                  stats |-> Append(files, filePath)]
            ELSE generateSequence(dir, prefix, baseNum, suffix, count, i + 1,
                                  Append(files, filePath), disk)

\* The result pair (files, err) of findFileSequence on the disk, with the paths
\* os.Stat was called on, in call order.
findFileSequence(basePath, count, wd, disk) ==
    IF count <= 0
    THEN [files |-> <<>>, err |-> Errorf("count must be positive", <<>>), stats |-> <<>>]
    ELSE LET abs == Abs(basePath, wd)
         IN IF ~abs.ok
            THEN [files |-> <<>>, err |-> Errorf("failed to get absolute path", basePath),
                  stats |-> <<>>]
            ELSE IF abs.path \notin disk
            THEN [files |-> <<>>, err |-> Errorf("base file does not exist", abs.path),
                  stats |-> <<abs.path>>]
            ELSE LET baseName == Base(abs.path)
                     tok      == scanNumber(baseName, 1)
                 IN IF ~tok.found
                    THEN [files |-> <<>>,
                          err |-> Errorf("could not extract number from filename", baseName),
                          stats |-> <<abs.path>>]
                    ELSE LET seq == generateSequence(Dir(abs.path), tok.prefix, tok.baseNum,
                                                     tok.suffix, count, 0, <<>>, disk)
                         IN [files |-> seq.files, err |-> seq.err,
                             stats |-> <<abs.path>> \o seq.stats]

(***************************************************************************)
(* resolveWorkerName, findCredential, Upload, Download                     *)
(***************************************************************************)

WorkerPrefix == <<"w", "o", "r", "k", "e", "r">>

\* resolveWorkerName that replaces the first '*' only.
resolveWorkerNameFirstOnly(workerNum, ipTemplate) ==
    LET k == IndexOf(ipTemplate, "*")
    IN IF k = 0 THEN ipTemplate
       ELSE SubSeq(ipTemplate, 1, k - 1) \o WorkerPrefix \o Itoa(workerNum)
                \o SubSeq(ipTemplate, k + 1, Len(ipTemplate))

resolveWorkerName(workerNum, ipTemplate) ==
    ReplaceAll(ipTemplate, "*", WorkerPrefix \o Itoa(workerNum))

\* A credential of the configuration: the fields findCredential reads.
Credential(name, addr) == [Name |-> name, IP |-> addr]

\* findCredential with one loop that takes the first credential whose name or
\* address is id.
findCredentialSinglePass(id, credentials) ==
    LET hits == {k \in 1..Len(credentials) :
                   \/ credentials[k].Name # <<>> /\ credentials[k].Name = id
                   \/ credentials[k].IP = id}
    IN IF hits # {}
       THEN [cred |-> credentials[CHOOSE k \in hits : \A j \in hits : k <= j], err |-> Nil]
       ELSE [cred |-> Credential(<<>>, <<>>),
             err |-> Errorf("no credentials found for IP or VPS name", id)]

\* The result pair (credential, err) of findCredential over the credentials.
findCredential(id, credentials) ==
    LET byName == {k \in 1..Len(credentials) :
                     credentials[k].Name # <<>> /\ credentials[k].Name = id}
        byIP   == {k \in 1..Len(credentials) : credentials[k].IP = id}
        first(S) == CHOOSE k \in S : \A j \in S : k <= j
    IN IF byName # {} THEN [cred |-> credentials[first(byName)], err |-> Nil]
       ELSE IF byIP # {} THEN [cred |-> credentials[first(byIP)], err |-> Nil]
       ELSE [cred |-> Credential(<<>>, <<>>),
             err |-> Errorf("no credentials found for IP or VPS name", id)]

\* What a call of Upload can return: the credential error, the stat error, or,
\* once the connection is attempted, success or an SSH/SFTP error.
UploadResults(call, credentials, wd, disk) ==
    IF findCredential(call.ip, credentials).err # Nil
    THEN {findCredential(call.ip, credentials).err}
    ELSE IF ~Stat(call.localPath, wd, disk)
    THEN {Errorf("failed to stat local path", call.localPath)}
    ELSE {Nil, Errorf("transfer failed", call.ip)}

\* What a call of Download can return.
DownloadResults(call, credentials) ==
    IF findCredential(call.ip, credentials).err # Nil
    THEN {findCredential(call.ip, credentials).err}
    ELSE {Nil, Errorf("transfer failed", call.ip)}

(***************************************************************************)
(* main: the state of one run                                              *)
(***************************************************************************)

VARIABLES
    version, upload, download, ip, autosend, ignore,   \* the flags
    cwd, fs, config,                                   \* working directory, disk, credentials
    pc,                                                \* the position in main
    workers, files, err,                               \* results of the validation steps
    i, errors, successCount,                           \* the transfer loop (i is 1-based)
    calls, returned, inflight,                         \* calls made, what each returned, calls in progress
    exitCode, fatal                                    \* -1 while running; the log.Fatal message

flags == <<version, upload, download, ip, autosend, ignore>>
env   == <<cwd, fs, config>>
vars  == <<version, upload, download, ip, autosend, ignore, cwd, fs, config, pc,
           workers, files, err, i, errors, successCount, calls, returned, inflight, exitCode,
           fatal>>

Running == -1

\* log.Fatal / log.Fatalf: the message is printed and the process exits with status 1.
Fatal(msg) == pc' = "done" /\ exitCode' = 1 /\ fatal' = msg

\* main returns: exit status 0.
Return == pc' = "done" /\ exitCode' = 0 /\ fatal' = ""

(***************************************************************************)
(* The runs explored: flag values, working directories, disks and          *)
(* credential files.                                                       *)
(***************************************************************************)

Empty == <<>>

UploadFlags ==
    {<<>>,
     <<"w", "9", ".", "t">>,
     <<"s", "/", "w", "9", ".", "t">>,
     <<"w", ".", "t">>,
     <<"w", "0", "7", ".", "t">>,
     <<"w", "o", "r", "k", "e", "r", "1", "6", "2", ".", "t", "x", "t">>}

DownloadFlags == {Empty, <<"r">>}

IpFlags ==
    {<<>>,
     <<"*">>,
     <<"*", ":", "/", "r">>,
     <<"h">>,
     <<"h", ":", "/", "r">>,
     <<"*", ".", "*">>,
     <<"*", ":", "/", "r", "/", "*">>,
     <<"*", ":", "/", "r", "o", "o", "t", "/", "r", "e", "a", "c", "t", "2", "s", "h", "e", "l", "l", "-", "s", "c", "a", "n", "n", "e", "r">>}

\* (--autosend, --ignore) pairs.
AutosendFlags ==
    {<<Empty, Empty>>,
     <<Empty, <<"5">>>>,
     <<<<"9", "-", "1", "1">>, Empty>>,
     <<<<"9", "-", "1", "1">>, <<"1", "0">>>>,
     <<<<"1", "1", ",", "9">>, Empty>>,
     <<<<"1", "0">>, Empty>>,
     <<<<"9", "-", "1", "1">>, <<"9", ",", "1", "0", ",", "1", "1">>>>,
     <<<<"9", "-", "x">>, Empty>>,
     <<<<"9", "-", "1", "0">>, <<"x">>>>,
     <<<<"2", "1", "-", "2", "7">>, <<"2", "2", ",", "2", "5">>>>}

WorkDirs == {<<"/", "d">>, Empty}

\* Every member of both sequences exists.
DiskFull ==
    {<<"/", "d", "/", "w", "9", ".", "t">>,
     <<"/", "d", "/", "w", "1", "0", ".", "t">>,
     <<"/", "d", "/", "w", "1", "1", ".", "t">>,
     <<"/", "d", "/", "s", "/", "w", "9", ".", "t">>,
     <<"/", "d", "/", "s", "/", "w", "1", "0", ".", "t">>,
     <<"/", "d", "/", "w", ".", "t">>,
     <<"/", "d", "/", "w", "0", "7", ".", "t">>,
     <<"/", "d", "/", "w", "7", ".", "t">>,
     <<"/", "d", "/", "w", "8", ".", "t">>,
     <<"/", "d", "/", "w", "o", "r", "k", "e", "r", "1", "6", "2", ".", "t", "x", "t">>,
     <<"/", "d", "/", "w", "o", "r", "k", "e", "r", "1", "6", "3", ".", "t", "x", "t">>,
     <<"/", "d", "/", "w", "o", "r", "k", "e", "r", "1", "6", "4", ".", "t", "x", "t">>,
     <<"/", "d", "/", "w", "o", "r", "k", "e", "r", "1", "6", "5", ".", "t", "x", "t">>,
     <<"/", "d", "/", "w", "o", "r", "k", "e", "r", "1", "6", "6", ".", "t", "x", "t">>}

\* w10.t and worker164.txt are missing.
DiskGap ==
    {<<"/", "d", "/", "w", "9", ".", "t">>,
     <<"/", "d", "/", "w", "1", "1", ".", "t">>,
     <<"/", "d", "/", "s", "/", "w", "9", ".", "t">>,
     <<"/", "d", "/", "w", ".", "t">>,
     <<"/", "d", "/", "w", "0", "7", ".", "t">>,
     <<"/", "d", "/", "w", "8", ".", "t">>,
     <<"/", "d", "/", "w", "o", "r", "k", "e", "r", "1", "6", "2", ".", "t", "x", "t">>,
     <<"/", "d", "/", "w", "o", "r", "k", "e", "r", "1", "6", "3", ".", "t", "x", "t">>,
     <<"/", "d", "/", "w", "o", "r", "k", "e", "r", "1", "6", "5", ".", "t", "x", "t">>,
     <<"/", "d", "/", "w", "o", "r", "k", "e", "r", "1", "6", "6", ".", "t", "x", "t">>}

Disks == {DiskFull, DiskGap, {}}

\* Every worker of the runs has a credential, named worker<N>; host h is listed by address.
ConfigAll ==
    <<Credential(<<"w", "o", "r", "k", "e", "r", "9">>, <<"1", "0", ".", "0", ".", "0", ".", "9">>),
      Credential(<<"w", "o", "r", "k", "e", "r", "1", "0">>, <<"1", "0", ".", "0", ".", "0", ".", "1", "0">>),
      Credential(<<"w", "o", "r", "k", "e", "r", "1", "1">>, <<"1", "0", ".", "0", ".", "0", ".", "1", "1">>),
      Credential(<<"w", "o", "r", "k", "e", "r", "2", "1">>, <<"1", "0", ".", "0", ".", "0", ".", "2", "1">>),
      Credential(<<"w", "o", "r", "k", "e", "r", "2", "3">>, <<"1", "0", ".", "0", ".", "0", ".", "2", "3">>),
      Credential(<<"w", "o", "r", "k", "e", "r", "2", "4">>, <<"1", "0", ".", "0", ".", "0", ".", "2", "4">>),
      Credential(<<"w", "o", "r", "k", "e", "r", "2", "6">>, <<"1", "0", ".", "0", ".", "0", ".", "2", "6">>),
      Credential(<<"w", "o", "r", "k", "e", "r", "2", "7">>, <<"1", "0", ".", "0", ".", "0", ".", "2", "7">>),
      Credential(Empty, <<"h">>)>>

\* worker10, worker23 and worker26 have no credential.
ConfigPart ==
    <<Credential(<<"w", "o", "r", "k", "e", "r", "9">>, <<"1", "0", ".", "0", ".", "0", ".", "9">>),
      Credential(<<"w", "o", "r", "k", "e", "r", "1", "1">>, <<"1", "0", ".", "0", ".", "0", ".", "1", "1">>),
      Credential(<<"w", "o", "r", "k", "e", "r", "2", "1">>, <<"1", "0", ".", "0", ".", "0", ".", "2", "1">>),
      Credential(<<"w", "o", "r", "k", "e", "r", "2", "4">>, <<"1", "0", ".", "0", ".", "0", ".", "2", "4">>),
      Credential(<<"w", "o", "r", "k", "e", "r", "2", "7">>, <<"1", "0", ".", "0", ".", "0", ".", "2", "7">>)>>

\* Names and addresses that cross: "worker9" is the address of the first
\* credential and the name of the second; "worker10" and "h" are addresses of
\* two credentials each and the name of none.
ConfigMixed ==
    <<Credential(<<"o", "l", "d">>, <<"w", "o", "r", "k", "e", "r", "9">>),
      Credential(<<"w", "o", "r", "k", "e", "r", "9">>, <<"1", "0", ".", "0", ".", "0", ".", "9">>),
      Credential(Empty, <<"w", "o", "r", "k", "e", "r", "1", "0">>),
      Credential(<<"b">>, <<"w", "o", "r", "k", "e", "r", "1", "0">>),
      Credential(<<"w", "o", "r", "k", "e", "r", "1", "1">>, <<"1", "0", ".", "0", ".", "0", ".", "1", "1">>),
      Credential(Empty, <<"h">>),
      Credential(<<"h", "2">>, <<"h">>)>>

Configs == {ConfigAll, ConfigPart, ConfigMixed}

(***************************************************************************)
(* main                                                                    *)
(***************************************************************************)

\* The state main starts in, before any flag is looked at.
Fresh ==
    /\ pc = "flags"
    /\ workers = <<>> /\ files = <<>> /\ err = Nil
    /\ i = 0 /\ errors = <<>> /\ successCount = 0
    /\ calls = <<>> /\ returned = <<>> /\ inflight = 0
    /\ exitCode = Running /\ fatal = ""

Init ==
    /\ version \in BOOLEAN
    /\ upload \in UploadFlags
    /\ download \in DownloadFlags
    /\ ip \in IpFlags
    /\ \E a \in AutosendFlags : autosend = a[1] /\ ignore = a[2]
    /\ cwd \in WorkDirs
    /\ fs \in Disks
    /\ config \in Configs
    /\ Fresh

\* --version: the banner and the version are printed and main returns.
PrintVersion ==
    /\ pc = "flags" /\ version
    /\ Return
    /\ UNCHANGED <<flags, env, workers, files, err, i, errors, successCount, calls, returned,
                 inflight>>

\* ValidateFlags without the check of --autosend against --download.
ValidateFlagsNoConflictCheck ==
    /\ pc = "flags" /\ ~version
    /\ IF ip = Empty
       THEN Fatal("IP address or VPS name is required. Use --ip flag")
       ELSE IF (upload = Empty /\ download = Empty) \/ (upload # Empty /\ download # Empty)
       THEN Fatal("You must specify either --upload or --download (but not both)")
       ELSE pc' = "config" /\ UNCHANGED <<exitCode, fatal>>
    /\ UNCHANGED <<flags, env, workers, files, err, i, errors, successCount, calls, returned,
                 inflight>>

\* The three flag checks, in the order main makes them.
ValidateFlags ==
    /\ pc = "flags" /\ ~version
    /\ IF autosend # Empty /\ download # Empty
       THEN Fatal("--autosend can only be used with --upload, not with --download")
       ELSE IF ip = Empty
       THEN Fatal("IP address or VPS name is required. Use --ip flag")
       ELSE IF (upload = Empty /\ download = Empty) \/ (upload # Empty /\ download # Empty)
       THEN Fatal("You must specify either --upload or --download (but not both)")
       ELSE pc' = "config" /\ UNCHANGED <<exitCode, fatal>>
    /\ UNCHANGED <<flags, env, workers, files, err, i, errors, successCount, calls, returned,
                 inflight>>

\* ensureConfigExists: the file is there or is downloaded, or the download fails.
EnsureConfig ==
    /\ pc = "config"
    /\ \E ok \in BOOLEAN :
         IF ok THEN pc' = "sender" /\ UNCHANGED <<exitCode, fatal>>
         ELSE Fatal("Failed to ensure config file exists")
    /\ UNCHANGED <<flags, env, workers, files, err, i, errors, successCount, calls, returned,
                 inflight>>

\* NewSftpSender after which the single-transfer path is taken in every mode.
NewSftpSenderSingleOnly ==
    /\ pc = "sender"
    /\ \E ok \in BOOLEAN :
         IF ok
         THEN /\ pc' = "single"
              /\ UNCHANGED <<exitCode, fatal>>
         ELSE Fatal("Failed to initialize sftpsender")
    /\ UNCHANGED <<flags, env, workers, files, err, i, errors, successCount, calls, returned,
                 inflight>>

\* NewSftpSender: the file is read and parsed, or that fails; then the mode is chosen.
NewSftpSender ==
    /\ pc = "sender"
    /\ \E ok \in BOOLEAN :
         IF ok
         THEN /\ pc' = IF autosend # Empty /\ upload # Empty THEN "parse" ELSE "single"
              /\ UNCHANGED <<exitCode, fatal>>
         ELSE Fatal("Failed to initialize sftpsender")
    /\ UNCHANGED <<flags, env, workers, files, err, i, errors, successCount, calls, returned,
                 inflight>>

\* ParseWorkers that takes an empty worker list for a success.
ParseWorkersAllowEmpty ==
    /\ pc = "parse"
    /\ LET r == parseWorkerNumbers(autosend, ignore)
           emptied == r.err.kind = "no workers to send to after applying ignore list"
       IN /\ workers' = r.workers
          /\ err' = IF emptied THEN Nil ELSE r.err
          /\ IF r.err # Nil /\ ~emptied THEN Fatal("Failed to parse worker numbers")
             ELSE pc' = "locate" /\ UNCHANGED <<exitCode, fatal>>
    /\ UNCHANGED <<flags, env, files, i, errors, successCount, calls, returned, inflight>>

\* Autosend mode: workers, err := parseWorkerNumbers(*autosend, *ignore).
ParseWorkers ==
    /\ pc = "parse"
    /\ LET r == parseWorkerNumbers(autosend, ignore)
       IN /\ workers' = r.workers
          /\ err' = r.err
          /\ IF r.err # Nil THEN Fatal("Failed to parse worker numbers")
             ELSE pc' = "locate" /\ UNCHANGED <<exitCode, fatal>>
    /\ UNCHANGED <<flags, env, files, i, errors, successCount, calls, returned, inflight>>

\* LocateFiles that checks the base file alone and leaves the other members to
\* the loop.
LocateFilesFirstOnly ==
    /\ pc = "locate"
    /\ LET r == findFileSequence(upload, 1, cwd, fs)
       IN /\ files' = r.files
          /\ err' = r.err
          /\ IF r.err # Nil THEN Fatal("Failed to find file sequence") /\ UNCHANGED i
             ELSE pc' = "loop" /\ i' = 1 /\ UNCHANGED <<exitCode, fatal>>
    /\ UNCHANGED <<flags, env, workers, errors, successCount, calls, returned, inflight>>

\* LocateFiles that keeps the members found before the first missing one and
\* makes no count check.
LocateFilesTruncate ==
    /\ pc = "locate"
    /\ LET found == {k \in 1..Len(workers) : findFileSequence(upload, k, cwd, fs).err = Nil}
           most  == IF found = {} THEN 1 ELSE CHOOSE k \in found : \A j \in found : j <= k
           r     == findFileSequence(upload, most, cwd, fs)
       IN /\ files' = r.files
          /\ err' = r.err
          /\ IF r.err # Nil THEN Fatal("Failed to find file sequence") /\ UNCHANGED i
             ELSE pc' = "loop" /\ i' = 1 /\ UNCHANGED <<exitCode, fatal>>
    /\ UNCHANGED <<flags, env, workers, errors, successCount, calls, returned, inflight>>

\* files, err := findFileSequence(*upload, len(workers)), then the count check,
\* then the loop's accumulators are set up.
LocateFiles ==
    /\ pc = "locate"
    /\ LET r == findFileSequence(upload, Len(workers), cwd, fs)
       IN /\ files' = r.files
          /\ err' = r.err
          /\ IF r.err # Nil THEN Fatal("Failed to find file sequence") /\ UNCHANGED i
             ELSE IF Len(r.files) # Len(workers)
             THEN Fatal("File count does not match worker count") /\ UNCHANGED i
             ELSE pc' = "loop" /\ i' = 1 /\ UNCHANGED <<exitCode, fatal>>
    /\ UNCHANGED <<flags, env, workers, errors, successCount, calls, returned, inflight>>

\* The arguments of the Upload call the loop makes for worker workerNum and file.
autosendCall(workerNum, file, ipFlag, uploadFlag) ==
    LET originalUploadDir == Dir(uploadFlag)
        ipParts        == SplitN2(ipFlag, ":")
        ipTemplate     == ipParts[1]
        location       == IF Len(ipParts) > 1 THEN ipParts[2] ELSE Empty
        workerName     == resolveWorkerName(workerNum, ipTemplate)
        workerParts    == SplitN2(workerName, ":")
        workerIPOrName == workerParts[1]
        workerLocation == IF Len(workerParts) > 1 THEN workerParts[2] ELSE location
    IN [op |-> "Upload", localPath |-> file, ip |-> workerIPOrName,
        remoteLocation |-> workerLocation,
        displayPath |-> Join(originalUploadDir, Base(file))]

\* AutosendUpload that starts the Upload and goes on to the next item without
\* waiting for it to return.
AutosendUploadAsync ==
    /\ pc = "loop" /\ i <= Len(workers)
    /\ IF i > Len(files)
       THEN /\ pc' = "done" /\ exitCode' = 2 /\ fatal' = "panic: index out of range"
            /\ UNCHANGED <<calls, inflight, i>>
       ELSE /\ calls' = Append(calls, autosendCall(workers[i], files[i], ip, upload))
            /\ inflight' = inflight + 1
            /\ i' = i + 1
            /\ UNCHANGED <<pc, exitCode, fatal>>
    /\ UNCHANGED <<flags, env, workers, files, err, errors, successCount, returned>>

\* AutosendUpload that pairs worker i with the file counted from the end.
AutosendUploadReversed ==
    /\ pc = "loop" /\ i <= Len(workers)
    /\ calls' = Append(calls, autosendCall(workers[i], files[Len(files) + 1 - i], ip, upload))
    /\ inflight' = inflight + 1
    /\ pc' = "uploading"
    /\ UNCHANGED <<exitCode, fatal>>
    /\ UNCHANGED <<flags, env, workers, files, err, i, errors, successCount, returned>>

\* One turn of the loop up to the call: Upload is entered for item i.
\* (files[i] past the end of files is a runtime panic: exit status 2.)
AutosendUpload ==
    /\ pc = "loop" /\ i <= Len(workers)
    /\ IF i > Len(files)
       THEN /\ pc' = "done" /\ exitCode' = 2 /\ fatal' = "panic: index out of range"
            /\ UNCHANGED <<calls, inflight>>
       ELSE /\ calls' = Append(calls, autosendCall(workers[i], files[i], ip, upload))
            /\ inflight' = inflight + 1
            /\ pc' = "uploading"
            /\ UNCHANGED <<exitCode, fatal>>
    /\ UNCHANGED <<flags, env, workers, files, err, i, errors, successCount, returned>>

\* AutosendUploadReturn that leaves the loop at the first failure.
AutosendUploadReturnAbort ==
    /\ pc = "uploading"
    /\ \E e \in UploadResults(calls[Len(calls)], config, cwd, fs) :
         /\ returned' = Append(returned, e)
         /\ IF e # Nil
            THEN /\ errors' = Append(errors, [worker |-> workers[i],
                                              host |-> calls[Len(calls)].ip, err |-> e])
                 /\ i' = Len(workers) + 1
                 /\ UNCHANGED successCount
            ELSE /\ successCount' = successCount + 1
                 /\ i' = i + 1
                 /\ UNCHANGED errors
    /\ inflight' = inflight - 1
    /\ pc' = "loop"
    /\ UNCHANGED <<flags, env, workers, files, err, calls, exitCode, fatal>>

\* AutosendUploadReturn that puts a new failure in front of the list.
AutosendUploadReturnPrepend ==
    /\ pc = "uploading"
    /\ \E e \in UploadResults(calls[Len(calls)], config, cwd, fs) :
         /\ returned' = Append(returned, e)
         /\ IF e # Nil
            THEN /\ errors' = <<[worker |-> workers[i],
                                 host |-> calls[Len(calls)].ip, err |-> e]>> \o errors
                 /\ UNCHANGED successCount
            ELSE /\ successCount' = successCount + 1
                 /\ UNCHANGED errors
    /\ inflight' = inflight - 1
    /\ i' = i + 1
    /\ pc' = "loop"
    /\ UNCHANGED <<flags, env, workers, files, err, calls, exitCode, fatal>>

\* Upload returns for item i: its outcome is recorded and the loop moves on.
AutosendUploadReturn ==
    /\ pc = "uploading"
    /\ \E e \in UploadResults(calls[Len(calls)], config, cwd, fs) :
         /\ returned' = Append(returned, e)
         /\ IF e # Nil
            THEN /\ errors' = Append(errors, [worker |-> workers[i],
                                              host |-> calls[Len(calls)].ip, err |-> e])
                 /\ UNCHANGED successCount
            ELSE /\ successCount' = successCount + 1
                 /\ UNCHANGED errors
    /\ inflight' = inflight - 1
    /\ i' = i + 1
    /\ pc' = "loop"
    /\ UNCHANGED <<flags, env, workers, files, err, calls, exitCode, fatal>>

\* Summary that prints the failures and returns normally.
SummaryIgnoreErrors ==
    /\ pc = "loop" /\ i > Len(workers)
    /\ Return
    /\ UNCHANGED <<flags, env, workers, files, err, i, errors, successCount, calls, returned,
                   inflight>>

\* After the loop: the summary is printed; any recorded error makes the run fatal.
Summary ==
    /\ pc = "loop" /\ i > Len(workers)
    /\ IF Len(errors) > 0 THEN Fatal("Some uploads failed") ELSE Return
    /\ UNCHANGED <<flags, env, workers, files, err, i, errors, successCount, calls, returned,
                 inflight>>

\* The arguments of the single Upload or Download call.
singleCall(ipFlag, uploadFlag, downloadFlag) ==
    LET ipParts  == SplitN2(ipFlag, ":")
        ipOrName == ipParts[1]
        location == IF Len(ipParts) > 1 THEN ipParts[2] ELSE Empty
    IN [op |-> IF uploadFlag # Empty THEN "Upload" ELSE "Download",
        localPath |-> IF uploadFlag # Empty THEN uploadFlag ELSE downloadFlag,
        ip |-> ipOrName, remoteLocation |-> location, displayPath |-> Empty]

\* The single-transfer path up to the call.
SingleTransfer ==
    /\ pc = "single"
    /\ IF upload # Empty \/ download # Empty
       THEN /\ calls' = Append(calls, singleCall(ip, upload, download))
            /\ inflight' = inflight + 1
            /\ pc' = "transferring"
            /\ UNCHANGED <<exitCode, fatal>>
       ELSE Return /\ UNCHANGED <<calls, inflight>>
    /\ UNCHANGED <<flags, env, workers, files, err, i, errors, successCount, returned>>

\* The single Upload or Download returns: an error is fatal.
SingleTransferReturn ==
    /\ pc = "transferring"
    /\ LET call == calls[Len(calls)]
       IN \E e \in (IF call.op = "Upload" THEN UploadResults(call, config, cwd, fs)
                    ELSE DownloadResults(call, config)) :
            /\ err' = e
            /\ returned' = Append(returned, e)
            /\ IF e # Nil
               THEN Fatal(IF call.op = "Upload" THEN "Upload failed" ELSE "Download failed")
               ELSE Return
    /\ inflight' = inflight - 1
    /\ UNCHANGED <<flags, env, workers, files, i, errors, successCount, calls>>

Next ==
    \/ PrintVersion
    \/ ValidateFlags
    \/ EnsureConfig
    \/ NewSftpSender
    \/ ParseWorkers
    \/ LocateFiles
    \/ AutosendUpload
    \/ AutosendUploadReturn
    \/ Summary
    \/ SingleTransfer
    \/ SingleTransferReturn

Spec == Init /\ [][Next]_vars

(***************************************************************************)
(* parseWorkerNumbers on its own: every autosend string of at most         *)
(* MaxTokens comma-separated tokens and every ignore string of at most     *)
(* MaxIgnoreTokens tokens, and the call main makes on them.                *)
(***************************************************************************)

MaxTokens == 2

MaxIgnoreTokens == 2

\* The worker numbers the tokens are written with: one and two digits.
WorkerNums == 9 .. 11

RangeToken(a, b) == Itoa(a) \o <<"-">> \o Itoa(b)

\* Tokens that are no plain ascending range and no plain number: empty, not a
\* number, a leading '-', three '-'-separated parts, a descending range, padded.
OddTokens ==
    {Empty,
     <<"x">>,
     <<"-", "9">>,
     <<"-", "9", "-", "1", "0">>,
     <<"1", "1", "-", "9">>,
     <<" ", "1", "0", " ">>}

AutosendTokens ==
    {Itoa(n) : n \in WorkerNums}
        \cup UNION {{RangeToken(a, b) : b \in {c \in WorkerNums : a <= c}} : a \in WorkerNums}
        \cup OddTokens

\* An ignore token with the numbers it stands for: none for an empty token.
IgnoreToken(s, nums) == [s |-> s, nums |-> nums]

ValidIgnoreTokens ==
    {IgnoreToken(Empty, {}),
     IgnoreToken(<<"9">>, {9}),
     IgnoreToken(<<"1", "0">>, {10}),
     IgnoreToken(<<" ", "1", "1", " ">>, {11})}

IgnoreTokens == {t.s : t \in ValidIgnoreTokens} \cup {<<"x">>}

SeqsUpTo(S, n) == UNION {[1..k -> S] : k \in 0..n}

RECURSIVE JoinComma(_)
\* strings.Join(toks, ","): the empty list gives the empty string.
JoinComma(toks) ==
    IF toks = <<>> THEN <<>>
    ELSE IF Len(toks) = 1 THEN toks[1]
    ELSE toks[1] \o <<",">> \o JoinComma(Tail(toks))

AutosendStrings == {JoinComma(toks) : toks \in SeqsUpTo(AutosendTokens, MaxTokens)}

IgnoreStrings == {JoinComma(toks) : toks \in SeqsUpTo(IgnoreTokens, MaxIgnoreTokens)}

InitParse ==
    /\ autosend \in AutosendStrings
    /\ ignore \in IgnoreStrings
    /\ version = FALSE /\ upload = Empty /\ download = Empty /\ ip = Empty
    /\ cwd = Empty /\ fs = {} /\ config = <<>>
    /\ pc = "parse"
    /\ workers = <<>> /\ files = <<>> /\ err = Nil
    /\ i = 0 /\ errors = <<>> /\ successCount = 0
    /\ calls = <<>> /\ returned = <<>> /\ inflight = 0
    /\ exitCode = Running /\ fatal = ""

NextParse == ParseWorkers

ParseSpec == InitParse /\ [][NextParse]_vars

(***************************************************************************)
(* What the strings mean, told from their tokens and not by the parser.    *)
(***************************************************************************)

\* An autosend token with the numbers it stands for.
Token(s, nums) == [s |-> s, nums |-> nums]

RangeTokens ==
    UNION {{Token(RangeToken(a, b), a .. b) : b \in {c \in WorkerNums : a <= c}} : a \in WorkerNums}

\* Single numbers, ascending ranges, a padded number, and the empty token.
ValidTokens ==
    {Token(Itoa(n), {n}) : n \in WorkerNums}
        \cup RangeTokens
        \cup {Token(<<" ", "1", "0", " ">>, {10}), Token(Empty, {})}

\* str is a comma-separated list of tokens of the table.
IsListOf(str, table) ==
    \A k \in 1..Len(Split(str, ",")) : \E t \in table : t.s = Split(str, ",")[k]

\* The numbers a comma-separated list of tokens of the table stands for.
NumsOf(str, table) ==
    UNION {(CHOOSE t \in table : t.s = Split(str, ",")[k]).nums : k \in 1..Len(Split(str, ","))}

\* seq lists exactly the members of S, each once, in ascending order.
AscendingExactly(seq, S) ==
    /\ Len(seq) = Cardinality(S)
    /\ {seq[k] : k \in 1..Len(seq)} = S
    /\ \A k \in 1..(Len(seq) - 1) : seq[k] < seq[k + 1]

\* parseWorkerNumbers has returned (ParseSpec).
ParseReturned == pc # "parse"

EmptyResult == "no workers to send to after applying ignore list"

(***************************************************************************)
(* Claims about parseWorkerNumbers (ParseSpec)                             *)
(***************************************************************************)

C8_UnionOfTokens ==
    (/\ ParseReturned /\ err = Nil
     /\ Len(Split(autosend, ",")) >= 2
     /\ IsListOf(autosend, ValidTokens)
     /\ IsListOf(ignore, ValidIgnoreTokens)) =>
            /\ AscendingExactly(workers,
                   NumsOf(autosend, ValidTokens) \ NumsOf(ignore, ValidIgnoreTokens))
            /\ \A k \in 1..Len(workers) : workers[k] \notin NumsOf(ignore, ValidIgnoreTokens)

\* C8 witness: overlapping tokens out of order, "10-11,9-10" with ignore "10".
C8_Witness ==
    /\ ParseReturned
    /\ autosend = RangeToken(10, 11) \o <<",">> \o RangeToken(9, 10)
    /\ ignore = <<"1", "0">>
    /\ workers = <<9, 11>>

\* C9: an empty autosend string fails with the empty-spec error for every
\* ignore string, malformed ones included.
C9_EmptySpec ==
    (ParseReturned /\ autosend = Empty) =>
        workers = <<>> /\ err.kind = "autosend cannot be empty"

\* C9 witness: the empty autosend string with the malformed ignore string "x".
C9_Witness ==
    /\ ParseReturned
    /\ autosend = Empty
    /\ ignore = <<"x">>
    /\ err.kind = "autosend cannot be empty"

\* C10: success never comes with an empty worker list; when every number the
\* tokens stand for is ignored, or a non-empty autosend string has only empty
\* tokens, the call fails with the empty-result error.
C10_NeverEmptySuccess ==
    ParseReturned =>
        /\ (err = Nil => workers # <<>>)
        /\ (/\ autosend # Empty
            /\ IsListOf(autosend, ValidTokens)
            /\ IsListOf(ignore, ValidIgnoreTokens)
            /\ NumsOf(autosend, ValidTokens) \subseteq NumsOf(ignore, ValidIgnoreTokens))
           => workers = <<>> /\ err.kind = EmptyResult

\* C10 witness: the autosend string "," has only empty tokens.
C10_Witness ==
    /\ ParseReturned
    /\ autosend = <<",">>
    /\ err.kind = EmptyResult

\* A malformed autosend token with the error kind parseWorkerNumbers gives it.
BadToken(s, kind) == [s |-> s, kind |-> kind]

MalformedTokens ==
    {BadToken(<<"x">>, "invalid worker number"),
     BadToken(<<"-", "9">>, "invalid range start"),
     BadToken(<<"-", "9", "-", "1", "0">>, "invalid range format"),
     BadToken(<<"9", "-", "x">>, "invalid range end"),
     BadToken(<<"1", "1", "-", "9">>, "range start must be <= end")}

InvalidRangeKinds == {"invalid range format", "invalid range start", "invalid range end"}

\* Inputs of the error paths: every malformed token, a few valid ones (a
\* number, a range, a padded number, the empty token), and ignore tokens with
\* one that is no integer.
ErrAutosendTokens ==
    {t.s : t \in MalformedTokens}
        \cup {Itoa(9), RangeToken(9, 10), <<" ", "1", "0", " ">>, Empty}

ErrIgnoreTokens == {Empty, <<"9">>, <<" ", "1", "1", " ">>, <<"x">>}

InitParseErr ==
    /\ autosend \in {JoinComma(toks) : toks \in SeqsUpTo(ErrAutosendTokens, MaxTokens)}
    /\ ignore \in {JoinComma(toks) : toks \in SeqsUpTo(ErrIgnoreTokens, MaxIgnoreTokens)}
    /\ version = FALSE /\ upload = Empty /\ download = Empty /\ ip = Empty
    /\ cwd = Empty /\ fs = {} /\ config = <<>>
    /\ pc = "parse"
    /\ workers = <<>> /\ files = <<>> /\ err = Nil
    /\ i = 0 /\ errors = <<>> /\ successCount = 0
    /\ calls = <<>> /\ returned = <<>> /\ inflight = 0
    /\ exitCode = Running /\ fatal = ""

NextParseErr == ParseWorkers

ParseErrSpec == InitParseErr /\ [][NextParseErr]_vars

\* The positions of the malformed tokens of a comma-separated list.
MalformedAt(str) ==
    {k \in 1..Len(Split(str, ",")) : \E t \in MalformedTokens : t.s = Split(str, ",")[k]}

\* The error kind of the first malformed token of the list.
FirstMalformedKind(str) ==
    LET k == CHOOSE j \in MalformedAt(str) : \A h \in MalformedAt(str) : j <= h
    IN (CHOOSE t \in MalformedTokens : t.s = Split(str, ",")[k]).kind

\* C11: a malformed autosend token among valid ones makes the call fail with
\* no worker list; with a valid ignore list the error is the token's own:
\* invalid range for a '-' token without two integer parts, the order
\* violation for start > end, invalid number for a non-integer without '-'.
C11_MalformedToken ==
    (/\ ParseReturned
     /\ IsListOf(autosend, ValidTokens \cup MalformedTokens)
     /\ MalformedAt(autosend) # {}) =>
        /\ err # Nil
        /\ workers = <<>>
        /\ IsListOf(ignore, ValidIgnoreTokens) =>
              /\ err.kind = FirstMalformedKind(autosend)
              /\ \A k \in MalformedAt(autosend) :
                    LET tok == Split(autosend, ",")[k]
                    IN Cardinality(MalformedAt(autosend)) = 1 =>
                         IF ~Contains(tok, "-") THEN err.kind = "invalid worker number"
                         ELSE err.kind \in InvalidRangeKinds
                                              \cup {"range start must be <= end"}

\* C11 witness: the valid range "9-10" followed by the descending range "11-9".
C11_Witness ==
    /\ ParseReturned
    /\ autosend = RangeToken(9, 10) \o <<",">> \o <<"1", "1", "-", "9">>
    /\ ignore = Empty
    /\ workers = <<>>
    /\ err.kind = "range start must be <= end"

\* The ignore string has a token that is not empty after trimming and is no integer.
BadIgnoreTokens == {<<"x">>}

HasBadIgnoreToken(str) ==
    \E k \in 1..Len(Split(str, ",")) : Split(str, ",")[k] \in BadIgnoreTokens

\* C12: with a non-empty autosend string, an ignore token that is no integer
\* makes the call fail with the invalid-ignore error, also when the autosend
\* string is malformed; empty ignore tokens raise no error.
C12_InvalidIgnoreToken ==
    (ParseReturned /\ autosend # Empty) =>
        /\ HasBadIgnoreToken(ignore) => (workers = <<>> /\ err.kind = "invalid ignore number")
        /\ IsListOf(ignore, ValidIgnoreTokens) => err.kind # "invalid ignore number"

\* C12 witness: the malformed autosend string "x" with the ignore string ",x".
C12_Witness ==
    /\ ParseReturned
    /\ autosend = <<"x">>
    /\ ignore = <<",", "x">>
    /\ err.kind = "invalid ignore number"
    /\ err.detail = <<"x">>

\* C13: a returned worker list holds no negative number, and a token that
\* begins with '-' is never accepted.
C13_NonNegative ==
    ParseReturned =>
        /\ err = Nil => \A k \in 1..Len(workers) : workers[k] >= 0
        /\ (\E k \in 1..Len(Split(autosend, ",")) :
               LET tok == TrimSpace(Split(autosend, ",")[k])
               IN tok # <<>> /\ Head(tok) = "-")
           => (err # Nil /\ workers = <<>>)

\* C13 witness: the token "-9" is rejected as a range without a start.
C13_Witness ==
    /\ ParseReturned
    /\ autosend = <<"-", "9">>
    /\ ignore = Empty
    /\ workers = <<>>
    /\ err.kind = "invalid range start"

(***************************************************************************)
(* Claims about main in autosend mode (Spec)                               *)
(***************************************************************************)

\* The fatal messages of the checks main makes before it chooses the mode.
PreModeFatals ==
    {"--autosend can only be used with --upload, not with --download",
     "IP address or VPS name is required. Use --ip flag",
     "You must specify either --upload or --download (but not both)",
     "Failed to ensure config file exists",
     "Failed to initialize sftpsender"}

\* The run took the autosend branch of main.
InAutosendMode ==
    /\ ~version /\ autosend # Empty /\ upload # Empty
    /\ pc \notin {"flags", "config", "sender"}
    /\ fatal \notin PreModeFatals

\* The run entered the transfer loop (and may have left it).
InTransferLoop ==
    /\ InAutosendMode
    /\ \/ pc \in {"loop", "uploading"}
       \/ pc = "done" /\ fatal \in {"", "Some uploads failed"}

\* A validation step of this run fails: worker parsing, file location, or the count check.
ValidationFails ==
    LET p == parseWorkerNumbers(autosend, ignore)
        f == findFileSequence(upload, Len(p.workers), cwd, fs)
    IN p.err # Nil \/ f.err # Nil \/ Len(f.files) # Len(p.workers)

\* C1: in autosend mode a failing validation step means no Upload call at any
\* time, the loop is never entered, and the run ends with a non-zero status.
C1_NoTransferOnValidationFailure ==
    (InAutosendMode /\ ValidationFails) =>
        /\ calls = <<>>
        /\ pc \in {"parse", "locate", "done"}
        /\ (pc = "done" => exitCode # 0)

\* C1 witness: three workers, the second file missing: fatal, nothing sent.
C1_Witness ==
    /\ InAutosendMode /\ ValidationFails
    /\ pc = "done" /\ exitCode = 1 /\ fatal = "Failed to find file sequence"
    /\ Len(workers) = 3 /\ err.kind = "file does not exist in sequence"
    /\ calls = <<>>

\* C2: once the loop has started, the calls made so far are the calls of items
\* 1, 2, ... in plan order, one each, whatever the earlier calls returned; when
\* the run ends every item has been attempted.
C2_EveryItemAttempted ==
    InTransferLoop =>
        /\ Len(calls) = Len(returned) + inflight
        /\ (pc = "loop" => Len(calls) = i - 1)
        /\ (pc = "uploading" => Len(calls) = i)
        /\ \A k \in 1..Len(calls) : calls[k] = autosendCall(workers[k], files[k], ip, upload)
        /\ (pc = "done" => Len(calls) = Len(workers) /\ Len(returned) = Len(workers))

\* C2 witness: item 1 failed in transfer, item 2 failed at the credential
\* look-up, and item 3 was still attempted.
C2_Witness ==
    /\ InTransferLoop /\ pc = "done"
    /\ Len(workers) = 3 /\ Len(calls) = 3
    /\ returned[1].kind = "transfer failed"
    /\ returned[2].kind = "no credentials found for IP or VPS name"
    /\ returned[3] = Nil

\* C3: a run that reached the loop ends non-zero exactly when some item's call
\* returned an error, and it ends only after every item has returned.
C3_ExitCode ==
    InTransferLoop =>
        /\ (pc \in {"loop", "uploading"} => exitCode = Running)
        /\ (pc = "done" =>
              /\ Len(returned) = Len(workers)
              /\ inflight = 0
              /\ (exitCode # 0 <=> \E k \in 1..Len(returned) : returned[k] # Nil))

\* C3 witness: the first of three items failed, the others succeeded, exit 1.
C3_Witness ==
    /\ InTransferLoop /\ pc = "done" /\ exitCode = 1
    /\ Len(workers) = 3 /\ Len(returned) = 3
    /\ returned[1] # Nil /\ returned[2] = Nil /\ returned[3] = Nil

RECURSIVE FailuresOf(_, _, _, _)
\* The failure entries of the first k items, in plan order.
FailuresOf(ret, ws, cs, k) ==
    IF k = 0 THEN <<>>
    ELSE FailuresOf(ret, ws, cs, k - 1)
            \o (IF ret[k] # Nil THEN <<[worker |-> ws[k], host |-> cs[k].ip, err |-> ret[k]]>>
                ELSE <<>>)

\* C4: after every prefix of k returned items succeeded + failed = k, the
\* failure list holds one entry per item whose call returned an error, in plan
\* order (ascending worker number), and nothing else.
C4_Report ==
    InTransferLoop =>
        /\ successCount + Len(errors) = Len(returned)
        /\ successCount = Cardinality({k \in 1..Len(returned) : returned[k] = Nil})
        /\ errors = FailuresOf(returned, workers, calls, Len(returned))
        /\ \A k \in 1..(Len(errors) - 1) : errors[k].worker < errors[k + 1].worker
        /\ (pc = "done" => successCount + Len(errors) = Len(workers))

\* C4 witness: two of five items failed and three succeeded.
C4_Witness ==
    /\ InTransferLoop /\ pc = "done" /\ exitCode = 1
    /\ Len(workers) = 5 /\ successCount = 3 /\ Len(errors) = 2
    /\ errors[1].worker = 23 /\ errors[2].worker = 26

\* The number a located file's name carries.
TokenOf(path) == scanNumber(Base(path), 1).baseNum

\* The run of the example: autosend 21-27, ignore 22,25, base worker162.txt.
ExampleRun ==
    /\ autosend = <<"2", "1", "-", "2", "7">>
    /\ ignore = <<"2", "2", ",", "2", "5">>
    /\ upload = <<"w", "o", "r", "k", "e", "r", "1", "6", "2", ".", "t", "x", "t">>
    /\ ip = <<"*", ":", "/", "r", "o", "o", "t", "/", "r", "e", "a", "c", "t", "2", "s", "h", "e", "l", "l", "-", "s", "c", "a", "n", "n", "e", "r">>

ExampleWorkers == <<21, 23, 24, 26, 27>>

ExampleHosts ==
    <<<<"w", "o", "r", "k", "e", "r", "2", "1">>,
      <<"w", "o", "r", "k", "e", "r", "2", "3">>,
      <<"w", "o", "r", "k", "e", "r", "2", "4">>,
      <<"w", "o", "r", "k", "e", "r", "2", "6">>,
      <<"w", "o", "r", "k", "e", "r", "2", "7">>>>

ExampleFiles ==
    <<<<"/", "d", "/", "w", "o", "r", "k", "e", "r", "1", "6", "2", ".", "t", "x", "t">>,
      <<"/", "d", "/", "w", "o", "r", "k", "e", "r", "1", "6", "3", ".", "t", "x", "t">>,
      <<"/", "d", "/", "w", "o", "r", "k", "e", "r", "1", "6", "4", ".", "t", "x", "t">>,
      <<"/", "d", "/", "w", "o", "r", "k", "e", "r", "1", "6", "5", ".", "t", "x", "t">>,
      <<"/", "d", "/", "w", "o", "r", "k", "e", "r", "1", "6", "6", ".", "t", "x", "t">>>>

\* C5: the k-th transfer sends the k-th located file to the k-th worker of the
\* ascending worker list, so a lower worker number gets a lower-numbered file;
\* in the example 21->162, 23->163, 24->164, 26->165, 27->166.
C5_PlanOrder ==
    InTransferLoop =>
        /\ \A k \in 1..Len(calls) :
              /\ calls[k].localPath = files[k]
              /\ calls[k].ip = SplitN2(resolveWorkerName(workers[k], SplitN2(ip, ":")[1]), ":")[1]
        /\ \A k \in 1..Len(calls) : \A j \in 1..Len(calls) :
              k < j => (/\ workers[k] < workers[j]
                        /\ TokenOf(calls[k].localPath) < TokenOf(calls[j].localPath))
        /\ (ExampleRun =>
              /\ workers = ExampleWorkers
              /\ \A k \in 1..Len(calls) :
                    /\ calls[k].ip = ExampleHosts[k]
                    /\ calls[k].localPath = ExampleFiles[k]
                    /\ calls[k].remoteLocation = <<"/", "r", "o", "o", "t", "/", "r", "e", "a", "c", "t", "2", "s", "h", "e", "l", "l", "-", "s", "c", "a", "n", "n", "e", "r">>)

\* C5 witness: the example run has made its five calls.
C5_Witness ==
    /\ InTransferLoop /\ ExampleRun
    /\ Len(calls) = 5
    /\ calls[5].ip = ExampleHosts[5] /\ calls[5].localPath = ExampleFiles[5]

\* C6: in autosend mode the loop is entered, and a transfer attempted, only
\* with as many located files as resolved workers: never over the shorter list.
C6_CountGate ==
    (InAutosendMode /\ (calls # <<>> \/ pc \in {"loop", "uploading"})) =>
            /\ Len(files) = Len(workers)
            /\ Len(workers) = Len(parseWorkerNumbers(autosend, ignore).workers)

\* C6 witness: two transfers made with three files located for three workers.
C6_Witness ==
    /\ InAutosendMode
    /\ Len(calls) = 2
    /\ Len(files) = 3 /\ Len(workers) = 3


(***************************************************************************)
(* findFileSequence on its own (FindSpec): main at the call, with base     *)
(* paths, counts, working directories and disks drawn from the sets below. *)
(***************************************************************************)

\* The largest number of files asked for.
MaxCount == 3

\* A name whose digit run, 1 followed by 19 zeros, is beyond the int range.
LongRunName == <<"w", "1", "0", "0", "0", "0", "0", "0", "0", "0", "0", "0", "0", "0", "0", "0", "0", "0", "0", "0", "0", ".", "t">>

FindPaths ==
    {<<"w", "9", ".", "t">>,
     <<"s", "/", "w", "9", ".", "t">>,
     <<"w", ".", "t">>,
     <<"w", "o", "r", "k", "e", "r", "1", "6", "2", ".", "t", "x", "t">>,
     <<"w", "0", "7", ".", "t">>,
     <<"/", "d", "/", "w", "9", ".", "t">>,
     <<"w", "8", ".", "t">>,
     LongRunName}

FindDisks ==
    {DiskFull \cup {Join(<<"/", "d">>, LongRunName)},
     DiskGap \cup {Join(<<"/", "d">>, LongRunName)},
     {}}

\* The autosend ranges 9-9, 9-10, ..., one per count.
FindAutosends == {RangeToken(9, 8 + n) : n \in 1..MaxCount}

InitFind ==
    /\ upload \in FindPaths
    /\ autosend \in FindAutosends
    /\ ignore = Empty
    /\ workers = parseWorkerNumbers(autosend, ignore).workers
    /\ cwd \in WorkDirs
    /\ fs \in FindDisks
    /\ version = FALSE /\ download = Empty /\ ip = <<"*">> /\ config = ConfigAll
    /\ pc = "locate"
    /\ files = <<>> /\ err = Nil
    /\ i = 0 /\ errors = <<>> /\ successCount = 0
    /\ calls = <<>> /\ returned = <<>> /\ inflight = 0
    /\ exitCode = Running /\ fatal = ""

NextFind == LocateFiles

FindSpec == InitFind /\ [][NextFind]_vars

\* findFileSequence has returned (FindSpec).
FindReturned == pc # "locate"

\* The absolute base path, the numeric token of its name, and candidate k (0-based).
AbsBase == Abs(upload, cwd).path

BaseToken == scanNumber(Base(AbsBase), 1)

Candidate(k) ==
    Join(Dir(AbsBase), BaseToken.prefix \o Itoa(BaseToken.baseNum + k) \o BaseToken.suffix)

\* The paths os.Stat was called on by the call that returned.
StatLog == findFileSequence(upload, Len(workers), cwd, fs).stats

\* The base file was found and its name has a number Atoi accepts.
SequenceStarted == Abs(upload, cwd).ok /\ AbsBase \in fs /\ BaseToken.found

\* The 0-based indices of the candidates missing from the disk.
MissingIndices == {k \in 0..(Len(workers) - 1) : Candidate(k) \notin fs}

FirstMissing == CHOOSE k \in MissingIndices : \A j \in MissingIndices : k <= j

\* C14: a successful findFileSequence returns exactly count paths; the path at
\* index i is in the base file's directory, is named prefix + decimal(baseNum
\* + i) + suffix, and was on the disk when os.Stat checked it.
C14_SequenceShape ==
    (FindReturned /\ err = Nil) =>
        /\ Len(files) = Len(workers)
        /\ \A k \in 1..Len(files) :
              /\ files[k] = Candidate(k - 1)
              /\ Dir(files[k]) = Dir(AbsBase)
              /\ Base(files[k]) = BaseToken.prefix \o Itoa(BaseToken.baseNum + k - 1)
                                      \o BaseToken.suffix
              /\ files[k] \in fs
              /\ StatLog[k + 1] = files[k]

\* C14 witness: three files are asked for from w9.t in /d and all are there.
C14_Witness ==
    /\ FindReturned
    /\ err = Nil
    /\ upload = <<"w", "9", ".", "t">>
    /\ files = <<<<"/", "d", "/", "w", "9", ".", "t">>, <<"/", "d", "/", "w", "1", "0", ".", "t">>, <<"/", "d", "/", "w", "1", "1", ".", "t">>>>

\* sub occurs in s as a run of consecutive characters.
IsSubstring(sub, s) ==
    \E k \in 0..(Len(s) - Len(sub)) : SubSeq(s, k + 1, k + Len(sub)) = sub

\* The text holds the path at one end and the decimal index in the rest.
NamesIndexAndPath(text, index, path) ==
    \E cut \in 0..Len(text) :
        \/ /\ SubSeq(text, cut + 1, Len(text)) = path
           /\ IsSubstring(Itoa(index), SubSeq(text, 1, cut))
        \/ /\ SubSeq(text, 1, cut) = path
           /\ IsSubstring(Itoa(index), SubSeq(text, cut + 1, Len(text)))

\* The call fails at the first missing candidate, returns no file, and has
\* called os.Stat on the base path and on the candidates up to that one only.
FailsAtFirstMissing ==
    /\ err.kind = "file does not exist in sequence"
    /\ files = <<>>
    /\ StatLog = <<AbsBase>> \o [k \in 1..(FirstMissing + 1) |-> Candidate(k - 1)]

\* C15 as stated: with a candidate missing, the call fails at the first
\* missing one with an error that names its index and its path, returns no
\* partial sequence and stats no later candidate.
C15_Original ==
    (FindReturned /\ SequenceStarted /\ MissingIndices # {}) =>
        /\ FailsAtFirstMissing
        /\ NamesIndexAndPath(err.detail, FirstMissing, Candidate(FirstMissing))

\* C15: with a candidate missing, the call fails at the first missing one
\* with an error that names its path and nothing else (no index), returns no
\* partial sequence and stats no later candidate.
C15_FirstMissing ==
    (FindReturned /\ SequenceStarted /\ MissingIndices # {}) =>
        /\ FailsAtFirstMissing
        /\ err.detail = Candidate(FirstMissing)

\* C15 witness: worker164.txt is absent from the run of three starting at
\* worker162.txt; the call fails at index 2 and names worker164.txt.
C15_Witness ==
    /\ FindReturned
    /\ upload = <<"w", "o", "r", "k", "e", "r", "1", "6", "2", ".", "t", "x", "t">>
    /\ Len(workers) = 3
    /\ SequenceStarted
    /\ MissingIndices # {}
    /\ FirstMissing = 2
    /\ files = <<>>
    /\ err = Errorf("file does not exist in sequence", <<"/", "d", "/", "w", "o", "r", "k", "e", "r", "1", "6", "4", ".", "t", "x", "t">>)
    /\ Len(StatLog) = 4

\* A digit occurs in the name.
HasDigit(name) == \E k \in 1..Len(name) : IsDigit(name[k])

\* The first maximal run of digits of a name that has a digit.
FirstRun(name) ==
    LET start == CHOOSE k \in 1..Len(name) :
                     IsDigit(name[k]) /\ \A j \in 1..(k - 1) : ~IsDigit(name[j])
    IN SubSeq(name, start, digitRunEnd(name, start) - 1)

\* C16 as stated: for a base name with a digit the numeric token is the first
\* maximal run of digits: no digit in the prefix, no digit at the head of the
\* suffix, baseNum the value of the whole run, also for a run beyond the int
\* range; a name without a digit fails with the no-number error.
C16_FirstMaximalRun ==
    (FindReturned /\ Abs(upload, cwd).ok /\ AbsBase \in fs) =>
        IF HasDigit(Base(AbsBase))
        THEN /\ BaseToken.found
             /\ ~HasDigit(BaseToken.prefix)
             /\ (BaseToken.suffix = <<>> \/ ~IsDigit(Head(BaseToken.suffix)))
             /\ Itoa(BaseToken.baseNum) = StripZeros(FirstRun(Base(AbsBase)))
             /\ StatLog[2] = Join(Dir(AbsBase),
                                  BaseToken.prefix \o Itoa(BaseToken.baseNum)
                                      \o BaseToken.suffix)
        ELSE /\ files = <<>>
             /\ err = Errorf("could not extract number from filename", Base(AbsBase))

(***************************************************************************)
(* Claims about the files, hosts and flags of a run of main (Spec)         *)
(***************************************************************************)

\* C17 as stated: the file named by --upload is the first member of the
\* located sequence and is the file sent to the first worker, also when its
\* number has leading zeros.
C17_BaseFileFirst ==
    InTransferLoop =>
        /\ files[1] = Abs(upload, cwd).path
        /\ (calls # <<>> =>
               /\ calls[1].localPath = Abs(upload, cwd).path
               /\ calls[1].ip = SplitN2(resolveWorkerName(workers[1], ip), ":")[1])

\* Where character k of the template lands in its expansion: every '*'
\* before it has grown from one character to the length of the name.
LandsAt(template, k, nameLen) ==
    k + Cardinality({j \in 1..(k - 1) : template[j] = "*"}) * (nameLen - 1)

\* r is the template with every '*' turned into name and all else in place.
IsExpansion(r, template, name) ==
    /\ Len(r) = LandsAt(template, Len(template) + 1, Len(name)) - 1
    /\ \A k \in 1..Len(template) :
          LET at == LandsAt(template, k, Len(name))
          IN IF template[k] = "*"
             THEN SubSeq(r, at, at + Len(name) - 1) = name
             ELSE r[at] = template[k]

\* "worker" and the decimal digits of n, without sign or padding.
WorkerName(n) ==
    WorkerPrefix \o (IF n < 10 THEN <<Digits[n + 1]>>
                     ELSE <<Digits[(n \div 10) + 1], Digits[(n % 10) + 1]>>)

\* The part of --ip before its first ':', which main hands to resolveWorkerName.
HostTemplate == SplitN2(ip, ":")[1]

\* C18: resolveWorkerName turns every '*' of the template into "worker" and
\* the unpadded decimal number and changes nothing else; a template without
\* '*' comes back unchanged, so every file of the run goes to that one host.
C18_EveryWildcard ==
    InTransferLoop =>
        \A k \in 1..Len(calls) :
            /\ IsExpansion(resolveWorkerName(workers[k], HostTemplate), HostTemplate,
                           WorkerName(workers[k]))
            /\ calls[k].ip = resolveWorkerName(workers[k], HostTemplate)
            /\ (~Contains(HostTemplate, "*") => calls[k].ip = HostTemplate)

\* C18 witness: the template *.* and worker 10 give worker10.worker10.
C18_Witness ==
    /\ InTransferLoop
    /\ ip = <<"*", ".", "*">>
    /\ Len(calls) >= 2
    /\ workers[2] = 10
    /\ calls[2].ip = <<"w", "o", "r", "k", "e", "r", "1", "0", ".", "w", "o", "r", "k", "e", "r", "1", "0">>

\* C19 as stated: host and location of every Upload call are the split at
\* the first ':' of the whole template after expansion, a '*' behind the
\* first ':' included.
C19_ExpandThenSplit ==
    InTransferLoop =>
        \A k \in 1..Len(calls) :
            LET parts == SplitN2(resolveWorkerName(workers[k], ip), ":")
            IN /\ calls[k].ip = parts[1]
               /\ calls[k].remoteLocation = IF Len(parts) > 1 THEN parts[2] ELSE Empty

\* The flag message of the --autosend with --download check.
AutosendDownloadFatal == "--autosend can only be used with --upload, not with --download"

\* C20 as stated: with --autosend and --download both set, whatever the other
\* flags, nothing is loaded, parsed or transferred and the exit is non-zero.
C20_Original ==
    (autosend # Empty /\ download # Empty) =>
        /\ pc \in {"flags", "done"}
        /\ calls = <<>>
        /\ (pc = "done" => exitCode \notin {0, Running})

\* C20: with --autosend and --download both set and without --version, the
\* run ends at the flag check: no configuration load, no parsing, no Upload or
\* Download call, exit status 1.  With --version the banner is printed and
\* the run returns with status 0, also without any call.
C20_Rejected ==
    (autosend # Empty /\ download # Empty) =>
        /\ pc \in {"flags", "done"}
        /\ calls = <<>>
        /\ workers = <<>> /\ files = <<>>
        /\ (pc = "done" /\ ~version => exitCode = 1 /\ fatal = AutosendDownloadFatal)
        /\ (pc = "done" /\ version => exitCode = 0 /\ fatal = "")

\* C20 witness: --autosend 9-11 with --download r and a valid --ip is rejected.
C20_Witness ==
    /\ ~version
    /\ autosend = <<"9", "-", "1", "1">> /\ download = <<"r">> /\ ip = <<"h">> /\ upload = Empty
    /\ pc = "done"
    /\ calls = <<>>
    /\ exitCode = 1
    /\ fatal = AutosendDownloadFatal

\* C21: autosend uploads are sequential: at most one Upload is in progress,
\* and every Upload but the one in progress has returned and has its outcome
\* recorded (as a success or as a failure) before the next one starts.
C21_Sequential ==
    InAutosendMode =>
        /\ inflight \in {0, 1}
        /\ (inflight = 1) = (pc = "uploading")
        /\ Len(calls) = Len(returned) + inflight
        /\ Len(errors) + successCount = Len(returned)
        /\ (pc = "uploading" => Len(calls) = i)
        /\ (pc = "loop" => Len(calls) = i - 1)

\* C21 witness: the second Upload is in progress, the first has failed and is
\* in the failure list.
C21_Witness ==
    /\ InAutosendMode
    /\ pc = "uploading"
    /\ Len(calls) = 2 /\ inflight = 1
    /\ Len(returned) = 1 /\ returned[1] # Nil
    /\ Len(errors) = 1 /\ successCount = 0

\* The positions of the credentials whose non-empty name is id, and of those
\* whose address is id.
NamedLike(id) == {k \in 1..Len(config) : config[k].Name # <<>> /\ config[k].Name = id}

AddressedLike(id) == {k \in 1..Len(config) : config[k].IP = id}

\* C22: for the host of every call, findCredential returns a credential named
\* like the host when there is one, also behind a credential with that
\* address; without a name match, the first credential with that address;
\* without any match, an error, and the call returns it with no transfer.
C22_NameBeforeIP ==
    \A k \in 1..Len(calls) :
        LET id == calls[k].ip
            r  == findCredential(id, config)
        IN /\ NamedLike(id) # {} =>
                  /\ r.err = Nil
                  /\ r.cred.Name = id
                  /\ \E j \in NamedLike(id) : r.cred = config[j]
           /\ (NamedLike(id) = {} /\ AddressedLike(id) # {}) =>
                  /\ r.err = Nil
                  /\ \E j \in AddressedLike(id) :
                        /\ r.cred = config[j]
                        /\ \A h \in AddressedLike(id) : j <= h
           /\ (NamedLike(id) = {} /\ AddressedLike(id) = {}) =>
                  /\ r.err = Errorf("no credentials found for IP or VPS name", id)
                  /\ (k <= Len(returned) => returned[k] = r.err)

\* C22 witness: host worker9 is the address of the first credential and the
\* name of the second; the second is the one returned.
C22_Witness ==
    /\ config = ConfigMixed
    /\ Len(calls) >= 1 /\ Len(returned) >= 1
    /\ calls[1].ip = <<"w", "o", "r", "k", "e", "r", "9">>
    /\ config[1].IP = calls[1].ip
    /\ findCredential(calls[1].ip, config).cred = config[2]
    /\ returned[1] = Nil

(***************************************************************************)
(* parseWorkerNumbers and findFileSequence called twice each on the same   *)
(* inputs (DetSpec).  The range over the worker map at 486 yields the keys *)
(* in an order Go does not fix: each call draws its own.                   *)
(***************************************************************************)

\* The orders in which a range over a map with key set S can yield the keys.
mapOrders(S) ==
    {o \in [1..Cardinality(S) -> S] : \A a, b \in 1..Cardinality(S) : o[a] = o[b] => a = b}

\* The slice as it is, left unsorted.
sortSliceNone(slice) == slice

\* sort.Ints on a slice of distinct numbers.
sortSlice(slice) ==
    [k \in 1..Len(slice) |->
        CHOOSE x \in {slice[j] : j \in 1..Len(slice)} :
            Cardinality({j \in 1..Len(slice) : slice[j] < x}) = k - 1]

\* The keys of the worker map of a call that gets as far as line 486.
workerSet(as, ig) ==
    LET r == parseWorkerNumbers(as, ig) IN {r.workers[k] : k \in 1..Len(r.workers)}

\* parseWorkerNumbers when the range at 486 yields the keys in the given order.
parseWorkerNumbersOrdered(as, ig, order) ==
    IF parseWorkerNumbers(as, ig).err # Nil THEN parseWorkerNumbers(as, ig)
    ELSE [workers |-> sortSlice(order), err |-> Nil]

DetAutosends == FindAutosends \cup {<<"1", "1", ",", "9">>, <<"x">>, Empty}

DetIgnores == {Empty, <<"1", "0">>, <<"x">>}

InitDet ==
    /\ autosend \in DetAutosends
    /\ ignore \in DetIgnores
    /\ upload \in FindPaths
    /\ cwd \in WorkDirs
    /\ fs \in FindDisks
    /\ version = FALSE /\ download = Empty /\ ip = <<"*">> /\ config = ConfigAll
    /\ pc = "parse"
    /\ workers = <<>> /\ files = <<>> /\ err = Nil
    /\ i = 0 /\ errors = <<>> /\ successCount = 0
    /\ calls = <<>> /\ returned = <<>> /\ inflight = 0
    /\ exitCode = Running /\ fatal = ""

\* workers, err := parseWorkerNumbers(autosend, ignore), going on to position to.
ParseCallTo(to) ==
    /\ \E order \in mapOrders(workerSet(autosend, ignore)) :
         LET r == parseWorkerNumbersOrdered(autosend, ignore, order)
         IN workers' = r.workers /\ err' = r.err
    /\ pc' = to
    /\ UNCHANGED <<flags, env, files, i, errors, successCount, calls, returned, inflight,
                 exitCode, fatal>>

\* files, err := findFileSequence(upload, len(workers)), going on to position to.
FindCallTo(to) ==
    /\ LET r == findFileSequence(upload, Len(workers), cwd, fs)
       IN files' = r.files /\ err' = r.err
    /\ pc' = to
    /\ UNCHANGED <<flags, env, workers, i, errors, successCount, calls, returned, inflight,
                 exitCode, fatal>>

ParseCall ==
    /\ pc = "parse"
    /\ ParseCallTo("parse again")

ParseCallAgain ==
    /\ pc = "parse again"
    /\ ParseCallTo("find")

FindCall ==
    /\ pc = "find"
    /\ FindCallTo("find again")

FindCallAgain ==
    /\ pc = "find again"
    /\ FindCallTo("called")

NextDet ==
    \/ ParseCall
    \/ ParseCallAgain
    \/ FindCall
    \/ FindCallAgain

DetSpec == InitDet /\ [][NextDet]_vars

\* C23: a second call of parseWorkerNumbers, and of findFileSequence on the
\* unchanged disk, returns what the first returned, list or error; no call
\* changes the disk, the working directory, the flags or any other state.
C23_Deterministic ==
    [][/\ (pc = "parse again" /\ pc' = "find") => (workers' = workers /\ err' = err)
       /\ (pc = "find again" /\ pc' = "called") => (files' = files /\ err' = err)
       /\ UNCHANGED <<flags, env, i, errors, successCount, calls, returned, inflight,
                      exitCode, fatal>>
       /\ (pc \in {"find", "find again"} => workers' = workers)
       /\ (pc \in {"parse", "parse again"} => files' = files)]_vars

\* C23 witness: both functions were called twice; the workers of "11,9" came
\* back ascending and the two files from w9.t were found.
C23_Witness ==
    /\ pc = "called"
    /\ autosend = <<"1", "1", ",", "9">> /\ ignore = Empty
    /\ workers = <<9, 11>>
    /\ upload = <<"w", "9", ".", "t">>
    /\ files = <<<<"/", "d", "/", "w", "9", ".", "t">>, <<"/", "d", "/", "w", "1", "0", ".", "t">>>>
    /\ err = Nil

\* C24: findFileSequence is called with count = len(workers) >= 1 and on
\* success returns that many paths, so the count check of main never fails
\* and findFileSequence never reports a count that is not positive.
C24_CountBranchDead ==
    /\ fatal # "File count does not match worker count"
    /\ err.kind # "count must be positive"
    /\ (pc = "locate" => Len(workers) >= 1)
    /\ (InAutosendMode /\ pc = "locate") =>
           LET r == findFileSequence(upload, Len(workers), cwd, fs)
           IN r.err = Nil => Len(r.files) = Len(workers)
    /\ (InAutosendMode /\ pc = "done" /\ fatal = "Failed to find file sequence") =>
           (Len(workers) >= 1 /\ err.kind # "nil")

\* C24 witness: the count check has just passed with three workers and three files.
C24_Witness ==
    /\ InAutosendMode
    /\ pc = "loop" /\ i = 1 /\ calls = <<>>
    /\ Len(workers) = 3
    /\ Len(files) = 3

\* Neither or both of --upload and --download are set, or --ip is empty.
BadFlagCombination ==
    \/ upload = Empty /\ download = Empty
    \/ upload # Empty /\ download # Empty
    \/ ip = Empty

\* A run with --autosend set never is on the single-transfer path, and every
\* call it makes is the Upload of the autosend loop for its worker and file.
AutosendNeverSingle ==
    autosend # Empty =>
        /\ pc \notin {"single", "transferring"}
        /\ \A k \in 1..Len(calls) :
              calls[k] = autosendCall(workers[k], files[k], ip, upload)

\* C25 as stated: a run with --autosend set never takes the single-transfer
\* path, and a run with neither or both of --upload and --download, or with
\* an empty --ip, makes no transfer and exits non-zero.
C25_Original ==
    /\ AutosendNeverSingle
    /\ BadFlagCombination =>
           /\ calls = <<>>
           /\ (pc = "done" => exitCode \notin {0, Running})

\* C25: a run with --autosend set never takes the single-transfer path: it
\* ends with status 1 before any transfer or it enters the autosend loop; a
\* run without --version with neither or both of --upload and --download, or
\* with an empty --ip, ends at the flag checks with no transfer and status 1.
\* With --version the run makes no transfer either and returns with status 0.
C25_ModeSelection ==
    /\ AutosendNeverSingle
    /\ (autosend # Empty /\ ~version /\ pc = "done") =>
           \/ calls = <<>> /\ exitCode = 1
           \/ InTransferLoop
    /\ (BadFlagCombination /\ ~version) =>
           /\ calls = <<>>
           /\ pc \in {"flags", "done"}
           /\ (pc = "done" => exitCode = 1)
    /\ version =>
           /\ calls = <<>>
           /\ pc \in {"flags", "done"}
           /\ (pc = "done" => exitCode = 0)

\* C25 witness: --autosend 9-11 with --ip h and neither --upload nor
\* --download ends at the flag check.
C25_Witness ==
    /\ ~version
    /\ autosend = <<"9", "-", "1", "1">> /\ upload = Empty /\ download = Empty /\ ip = <<"h">>
    /\ pc = "done"
    /\ calls = <<>>
    /\ exitCode = 1
    /\ fatal = "You must specify either --upload or --download (but not both)"

====
